---- MODULE Spec2Model ----
(***************************************************************************)
(* State-machine model of the search front-end (frontend/script.js and its *)
(* near-identical copy).  One action per event callback of the browser's   *)
(* event loop: a callback runs to completion, an `await` splits a handler  *)
(* into the part before the request and the part run on its completion.    *)
(*                                                                         *)
(* Text is a sequence of characters.  A value the program only passes      *)
(* through (a date, a coordinate, a radius) is written as a one-symbol     *)
(* sequence; the empty sequence is the empty string.  An optional JSON     *)
(* field is <<>> when absent and <<v>> when present.  A document's content *)
(* is long: it is kept run-length encoded, as the sequence of its runs     *)
(* <<character, length>>, adjacent runs differing in their character.      *)
(***************************************************************************)
EXTENDS Integers, Sequences, FiniteSets, TLC

VARIABLES
    searchInput,    \* #searchInput.value
    searchType,     \* #searchType.value
    latInput,       \* #latInput.value
    lonInput,       \* #lonInput.value
    georefInput,    \* #georefInput.value
    startDate,      \* #startDate.value
    endDate,        \* #endDate.value
    distanceInput,  \* #distanceInput.value
    loading,        \* #loadingSpinner is displayed
    acShow,         \* #autocompleteList carries class 'show'
    acItems,        \* rows of #autocompleteList: [titles, req]
    timers,         \* timer handles scheduled by setTimeout and not yet run or cleared
    timeout,        \* the closure variable `timeout` of debounce
    evCount,        \* number of 'input' events delivered so far
    calls,          \* calls[e]: how often handleAutocomplete was called with event e
    superseded,     \* events whose scheduled call was pending when a later event arrived
    handled,        \* <<the field's value at the last run of handleAutocomplete>>
    acReqs,         \* autocomplete requests in flight
    acSeq,          \* number of autocomplete requests issued
    searchReqs,     \* search requests in flight
    searchSeq,      \* number of search requests issued
    results,        \* #results: [kind, cards, req]
    resultCount,    \* #resultCount.textContent
    markers,        \* the module variable `markers`
    mapLayers,      \* the marker layers present on the Leaflet map
    view,           \* the map's viewport
    geoPending,     \* getCurrentPosition calls not yet answered
    submitted,      \* a search was dispatched since the last 'input' event
    alertMsg,       \* the alert raised by the last callback, "" if none
    last            \* the last callback run: [op, req, out, resp, had], `had` being
                    \* the number of markers on the map when a search answer came

formVars == <<searchType, latInput, lonInput, georefInput, startDate, endDate, distanceInput>>
acVars == <<acShow, acItems, acReqs, acSeq>>
debounceVars == <<timers, timeout, evCount, calls, superseded, handled>>
searchVars == <<searchReqs, searchSeq>>
resultVars == <<results, resultCount>>
mapVars == <<markers, mapLayers, view>>
vars == <<searchInput, formVars, loading, acVars, debounceVars, searchVars,
          resultVars, mapVars, geoPending, submitted, alertMsg, last>>

(***************************************************************************)
(* Bounds of the model.                                                    *)
(***************************************************************************)
MaxLen == 3
MaxInputs == 2
MaxSearches == 2
MaxHits == 2
MaxGeo == 1
MaxSuggestions == 1

(***************************************************************************)
(* Program constants.                                                      *)
(***************************************************************************)
MinAutocompleteLen == 3
PreviewLen == 300

DefaultLat == <<"32.2211">>
DefaultLon == <<"35.2544">>
DefaultDistance == <<"500km">>

MsgQueryRequired == "Please enter a search query"
MsgSpatiotemporal == "For spatiotemporal search, please provide required fields"
MsgSearchFailed == "Search failed. Please make sure the backend is running."
MsgGeoUnsupported == "Geolocation is not supported by your browser."
MsgGeoSet == "Location set successfully!"
MsgGeoFailed == "Unable to get your location. Please enter manually."
NoAlert == ""

ReadMore == "Read More"
ReadLess == "Read Less"
Ellipsis == << <<".", 3>> >>
NoContentText ==
    << <<"N", 1>>, <<"o", 1>>, <<" ", 1>>, <<"c", 1>>, <<"o", 1>>, <<"n", 1>>,
       <<"t", 1>>, <<"e", 1>>, <<"n", 1>>, <<"t", 1>>, <<" ", 1>>, <<"a", 1>>,
       <<"v", 1>>, <<"a", 1>>, <<"i", 1>>, <<"l", 1>>, <<"a", 1>>, <<"b", 1>>,
       <<"l", 1>>, <<"e", 1>> >>

(***************************************************************************)
(* Text.                                                                   *)
(***************************************************************************)
Chars == {" ", "a"}

Strings == UNION {[1..n -> Chars] : n \in 0..MaxLen}

RECURSIVE TrimStart(_)
TrimStart(s) == IF s # <<>> /\ Head(s) = " " THEN TrimStart(Tail(s)) ELSE s

RECURSIVE TrimEnd(_)
TrimEnd(s) ==
    IF s # <<>> /\ s[Len(s)] = " " THEN TrimEnd(SubSeq(s, 1, Len(s) - 1)) ELSE s

\* String.prototype.trim
Trim(s) == TrimEnd(TrimStart(s))

\* a content of n characters
Text(n) == IF n = 0 THEN <<>> ELSE << <<"x", n>> >>

\* .length of a content
RECURSIVE Length(_)
Length(t) == IF t = <<>> THEN 0 ELSE t[1][2] + Length(Tail(t))

\* .substring(0, k) of a content
RECURSIVE Substring0(_, _)
Substring0(t, k) ==
    IF k <= 0 \/ t = <<>> THEN <<>>
    ELSE IF t[1][2] >= k THEN << <<t[1][1], k>> >>
    ELSE <<t[1]>> \o Substring0(Tail(t), k - t[1][2])

\* a + b on contents
Concat(a, b) ==
    IF a = <<>> THEN b
    ELSE IF b = <<>> THEN a
    ELSE IF a[Len(a)][1] = b[1][1]
    THEN SubSeq(a, 1, Len(a) - 1) \o << <<b[1][1], a[Len(a)][2] + b[1][2]>> >> \o Tail(b)
    ELSE a \o b

Range(f) == {f[i] : i \in DOMAIN f}

\* JavaScript truthiness of a string or of an optional number
Truthy(v) == v # <<>> /\ v # <<0>>

(***************************************************************************)
(* Values of the form fields and of the backend's answers.                 *)
(***************************************************************************)
SearchTypes == {"text", "spatiotemporal"}
LatValues == {<<>>, <<"31.5">>}
LonValues == {<<>>, <<"35.1">>}
GeorefValues == {<<>>, <<" ">>, <<"N">>}
DateValues == {<<>>, <<"2020-01-01">>}
DistanceValues == {<<>>, <<"10km">>}

\* A hit: _source.title, _score, _source.geopoint (<<>> or <<lat, lon>>, each
\* coordinate <<>> or <<number>>) and _source.content.
Hit(t, sc, g, c) == [title |-> t, score |-> sc, geopoint |-> g, content |-> c]

\* A located document with a long content, one on the equator with a content of
\* exactly the preview's length, and a bare one the backend did not score.
HitValues ==
    { Hit("A", <<7>>, << <<31>>, <<35>> >>, Text(PreviewLen + 1)),
      Hit("B", <<5>>, << <<0>>, <<35>> >>, Text(PreviewLen)),
      Hit("C", <<>>, <<>>, <<>>) }

\* A located document the backend did not score.
ScorelessLocated == Hit("D", <<>>, << <<31>>, <<35>> >>, <<>>)

\* The hit lists over the three hits above, and the unscored located document
\* alone and after a well-formed located one.
HitLists ==
    UNION {[1..n -> HitValues] : n \in 0..MaxHits}
    \cup {<<ScorelessLocated>>, <<CHOOSE h \in HitValues : h.title = "A", ScorelessLocated>>}

\* The parsed body: <<>> when it has no `hits` member, else <<hits.hits>>.
DataValues == {<<>>} \cup {<<l>> : l \in HitLists}

\* What a request ends in: the fetch rejects, the body does not parse, or data.
Responses ==
    {[kind |-> "neterror", data |-> <<>>], [kind |-> "badjson", data |-> <<>>]}
    \cup {[kind |-> "json", data |-> d] : d \in DataValues}

\* What `last` keeps of an answer: its kind, <<the number of hits>> if it has a
\* `hits` member, and for a search answer the number of hits with a valid
\* coordinate pair and, once rendered, the hits' titles.
NoResp == [kind |-> "none", hits |-> <<>>, valid |-> 0, titles |-> <<>>]

\* !data.hits || data.hits.hits.length === 0
NoHits(data) == data = <<>> \/ Len(data[1]) = 0

(***************************************************************************)
(* showLoading / hideLoading / hideAutocomplete                            *)
(***************************************************************************)
showLoading == TRUE
hideLoading == FALSE
hideAutocomplete == FALSE

\* The elements of the page inside the element of class 'search-box': the query
\* field, the search button and the suggestion panel.  The result cards, the
\* filters and the "use my location" button are outside it.
SearchBox == {"searchInput", "searchBtn", "autocompleteList"}

\* The document's click listener, run at the end of every click: the panel it
\* leaves after a click on `target` with the panel at `panel`.
DocumentClick(target, panel) ==
    IF target \notin SearchBox THEN hideAutocomplete ELSE panel

(***************************************************************************)
(* performSearch, up to the fetch.                                         *)
(***************************************************************************)
Form ==
    [searchInput |-> searchInput, searchType |-> searchType, latInput |-> latInput,
     lonInput |-> lonInput, georefInput |-> georefInput, startDate |-> startDate,
     endDate |-> endDate, distanceInput |-> distanceInput]

NoRequest == [endpoint |-> "", params |-> <<>>]

\* URLSearchParams.get / has
HasParam(req, k) == \E i \in DOMAIN req.params : req.params[i][1] = k
GetParam(req, k) ==
    LET i == CHOOSE j \in DOMAIN req.params :
                 req.params[j][1] = k /\ \A h \in 1..(j - 1) : req.params[h][1] # k
    IN req.params[i][2]

\* Faulty variant: each coordinate is attached on its own.
TextRequestEitherCoordinate(query, lat, lon, georef) ==
    LET p0 == << <<"q", query>> >>
        p1 == IF lat # <<>> THEN Append(p0, <<"lat", lat>>) ELSE p0
        p2 == IF lon # <<>> THEN Append(p1, <<"lon", lon>>) ELSE p1
        p3 == IF georef # <<>> THEN Append(p2, <<"georef", georef>>) ELSE p2
    IN [endpoint |-> "/search", params |-> p3]

\* The text-mode branch of the try block.
TextRequest(query, lat, lon, georef) ==
    LET p0 == << <<"q", query>> >>
        p1 == IF lat # <<>> /\ lon # <<>>
              THEN p0 \o << <<"lat", lat>>, <<"lon", lon>> >> ELSE p0
        p2 == IF georef # <<>> THEN Append(p1, <<"georef", georef>>) ELSE p1
    IN [endpoint |-> "/search", params |-> p2]

\* Faulty variant: the coordinates are used only as a pair, as in text mode.
SpatiotemporalRequestPairOnly(query, lat, lon, georef, start, end, dist) ==
    LET both == lat # <<>> /\ lon # <<>>
    IN [endpoint |-> "/spatiotemporal",
        params |-> << <<"q", query>>, <<"start", start>>, <<"end", end>>,
                      <<"lat", IF both THEN lat ELSE DefaultLat>>,
                      <<"lon", IF both THEN lon ELSE DefaultLon>>,
                      <<"distance", IF dist # <<>> THEN dist ELSE DefaultDistance>>,
                      <<"georef", georef>> >>]

\* The spatiotemporal branch once the required fields are there.
SpatiotemporalRequest(query, lat, lon, georef, start, end, dist) ==
    LET searchLat == IF lat # <<>> THEN lat ELSE DefaultLat
        searchLon == IF lon # <<>> THEN lon ELSE DefaultLon
        distance == IF dist # <<>> THEN dist ELSE DefaultDistance
    IN [endpoint |-> "/spatiotemporal",
        params |-> << <<"q", query>>, <<"start", start>>, <<"end", end>>,
                      <<"lat", searchLat>>, <<"lon", searchLon>>,
                      <<"distance", distance>>, <<"georef", georef>> >>]

\* Faulty variant: the place name is not checked.
MissingRequiredNoGeoref(start, end, georef) == start = <<>> \/ end = <<>>

\* !startDate || !endDate || !georef
MissingRequired(start, end, georef) == start = <<>> \/ end = <<>> \/ georef = <<>>

\* Faulty variant: the query is tested and sent untrimmed.
PerformSearchStartUntrimmed(f, busy, panel) ==
    LET query == f.searchInput
        georef == Trim(f.georefInput)
    IN IF query = <<>>
       THEN [out |-> "noquery", alert |-> MsgQueryRequired, loading |-> busy,
             acShow |-> panel, request |-> NoRequest]
       ELSE IF f.searchType = "text"
       THEN [out |-> "dispatched", alert |-> NoAlert, loading |-> showLoading,
             acShow |-> hideAutocomplete,
             request |-> TextRequest(query, f.latInput, f.lonInput, georef)]
       ELSE IF MissingRequired(f.startDate, f.endDate, georef)
       THEN [out |-> "abort", alert |-> MsgSpatiotemporal, loading |-> hideLoading,
             acShow |-> hideAutocomplete, request |-> NoRequest]
       ELSE [out |-> "dispatched", alert |-> NoAlert, loading |-> showLoading,
             acShow |-> hideAutocomplete,
             request |-> SpatiotemporalRequest(query, f.latInput, f.lonInput, georef,
                                               f.startDate, f.endDate, f.distanceInput)]

\* The synchronous part of performSearch on form f with the spinner at `busy` and
\* the panel at `panel`: what it alerts, the spinner and the panel it leaves, and
\* the request it fetches (NoRequest if none).
PerformSearchStart(f, busy, panel) ==
    LET query == Trim(f.searchInput)
        georef == Trim(f.georefInput)
    IN IF query = <<>>
       THEN [out |-> "noquery", alert |-> MsgQueryRequired, loading |-> busy,
             acShow |-> panel, request |-> NoRequest]
       ELSE IF f.searchType = "text"
       THEN [out |-> "dispatched", alert |-> NoAlert, loading |-> showLoading,
             acShow |-> hideAutocomplete,
             request |-> TextRequest(query, f.latInput, f.lonInput, georef)]
       ELSE IF MissingRequired(f.startDate, f.endDate, georef)
       THEN [out |-> "abort", alert |-> MsgSpatiotemporal, loading |-> hideLoading,
             acShow |-> hideAutocomplete, request |-> NoRequest]
       ELSE [out |-> "dispatched", alert |-> NoAlert, loading |-> showLoading,
             acShow |-> hideAutocomplete,
             request |-> SpatiotemporalRequest(query, f.latInput, f.lonInput, georef,
                                               f.startDate, f.endDate, f.distanceInput)]

(***************************************************************************)
(* displayResults                                                          *)
(***************************************************************************)
FullContent(hit) == IF hit.content # <<>> THEN hit.content ELSE NoContentText

TruncatedContent(full) ==
    IF Length(full) > PreviewLen
    THEN Concat(Substring0(full, PreviewLen), Ellipsis)
    ELSE full

NeedsReadMore(full) == Length(full) > PreviewLen

\* The card built for one hit: the two content spans with their inline display
\* styles and the toggle button's label ("" when no button is rendered).
Card(hit) ==
    LET full == FullContent(hit)
    IN [title |-> hit.title, preview |-> TruncatedContent(full), full |-> full,
        previewDisplay |-> "", fullDisplay |-> "none",
        button |-> IF NeedsReadMore(full) THEN ReadMore ELSE ""]

\* Faulty variant: the card shows the score as it is, without toFixed.
CardThrowsGeopointOnly(hit) ==
    hit.geopoint # <<>> /\ (hit.geopoint[1] = <<>> \/ hit.geopoint[2] = <<>>)

\* hit._score.toFixed and source.geopoint.lat.toFixed raise on a missing number
CardThrows(hit) ==
    \/ hit.score = <<>>
    \/ hit.geopoint # <<>> /\ (hit.geopoint[1] = <<>> \/ hit.geopoint[2] = <<>>)

NoCount == <<>>
CountText(n) == <<n>>

InitialResults == [kind |-> "initial", cards |-> <<>>, req |-> 0]

\* Faulty variant: the new cards are appended to those already there.
displayResultsAppend(data, res, cnt, req) ==
    IF NoHits(data)
    THEN [threw |-> FALSE, results |-> [kind |-> "empty", cards |-> <<>>, req |-> req],
          resultCount |-> NoCount]
    ELSE LET hits == data[1]
         IN IF \E i \in DOMAIN hits : CardThrows(hits[i])
            THEN [threw |-> TRUE, results |-> res, resultCount |-> CountText(Len(hits))]
            ELSE [threw |-> FALSE,
                  results |-> [kind |-> "cards",
                               cards |-> res.cards \o [i \in DOMAIN hits |-> Card(hits[i])],
                               req |-> req],
                  resultCount |-> CountText(Len(hits))]

\* displayResults(data) on the panel `res` with count `cnt`, for the response of
\* request req.  An exception leaves innerHTML as it was, the count already set.
displayResults(data, res, cnt, req) ==
    IF NoHits(data)
    THEN [threw |-> FALSE, results |-> [kind |-> "empty", cards |-> <<>>, req |-> req],
          resultCount |-> NoCount]
    ELSE LET hits == data[1]
         IN IF \E i \in DOMAIN hits : CardThrows(hits[i])
            THEN [threw |-> TRUE, results |-> res, resultCount |-> CountText(Len(hits))]
            ELSE [threw |-> FALSE,
                  results |-> [kind |-> "cards",
                               cards |-> [i \in DOMAIN hits |-> Card(hits[i])],
                               req |-> req],
                  resultCount |-> CountText(Len(hits))]

\* The text a card displays: the spans whose display is not 'none'.
DisplayedText(card) ==
    Concat(IF card.previewDisplay # "none" THEN card.preview ELSE <<>>,
           IF card.fullDisplay # "none" THEN card.full ELSE <<>>)

\* Faulty variant: collapsing leaves the label.
toggleReadMoreKeepLabel(card) ==
    IF card.fullDisplay = "none"
    THEN [card EXCEPT !.previewDisplay = "none", !.fullDisplay = "inline",
                      !.button = ReadLess]
    ELSE [card EXCEPT !.previewDisplay = "inline", !.fullDisplay = "none"]

\* toggleReadMore(index) on one card
toggleReadMore(card) ==
    IF card.fullDisplay = "none"
    THEN [card EXCEPT !.previewDisplay = "none", !.fullDisplay = "inline",
                      !.button = ReadLess]
    ELSE [card EXCEPT !.previewDisplay = "inline", !.fullDisplay = "none",
                      !.button = ReadMore]

(***************************************************************************)
(* updateMap                                                               *)
(***************************************************************************)
\* source.geopoint && source.geopoint.lat && source.geopoint.lon
ValidGeopoint(hit) ==
    hit.geopoint # <<>> /\ Truthy(hit.geopoint[1]) /\ Truthy(hit.geopoint[2])

ValidCount(data) ==
    IF data = <<>> THEN 0
    ELSE Cardinality({i \in DOMAIN data[1] : ValidGeopoint(data[1][i])})

SearchSummary(resp, out) ==
    IF resp.kind # "json" \/ resp.data = <<>>
    THEN [kind |-> resp.kind, hits |-> <<>>, valid |-> 0, titles |-> <<>>]
    ELSE [kind |-> resp.kind, hits |-> <<Len(resp.data[1])>>,
          valid |-> ValidCount(resp.data),
          titles |-> IF out = "ok"
                     THEN [i \in DOMAIN resp.data[1] |-> resp.data[1][i].title]
                     ELSE <<>>]

\* L.marker([lat, lon]): a new layer object, named by the response and the hit
Marker(req, i, hit) ==
    [req |-> req, idx |-> i, lat |-> hit.geopoint[1][1], lon |-> hit.geopoint[2][1]]

InitialView == [kind |-> "setView", at |-> << <<"32.2211", "35.2544">> >>, zoom |-> 8]

\* Faulty variant: the old markers stay on the map.
RemoveNothing(ms, layers) == layers

\* markers.forEach(marker => map.removeLayer(marker)); markers = []
RemoveOldMarkers(ms, layers) == layers \ Range(ms)

\* The forEach over the hits from index i on: acc = [threw, markers, mapLayers,
\* bounds].  The marker is on the map before its popup is built.
RECURSIVE AddMarkers(_, _, _, _)
AddMarkers(hits, i, req, acc) ==
    IF i > Len(hits) \/ acc.threw THEN acc
    ELSE IF ~ValidGeopoint(hits[i]) THEN AddMarkers(hits, i + 1, req, acc)
    ELSE LET m == Marker(req, i, hits[i])
             onMap == [acc EXCEPT !.mapLayers = @ \cup {m}]
         IN IF hits[i].score = <<>>
            THEN [onMap EXCEPT !.threw = TRUE]
            ELSE AddMarkers(hits, i + 1, req,
                            [onMap EXCEPT !.markers = Append(@, m),
                                          !.bounds = Append(@, <<m.lat, m.lon>>)])

\* Faulty variant: with no marker added the map returns to its initial view.
FitBoundsOrReset(done, v) ==
    [threw |-> done.threw, markers |-> done.markers, mapLayers |-> done.mapLayers,
     view |-> IF done.threw THEN v
              ELSE IF Len(done.bounds) > 0
              THEN [kind |-> "fitBounds", at |-> done.bounds, zoom |-> 0]
              ELSE InitialView]

\* The end of updateMap: map.fitBounds if any marker was added.
FitBounds(done, v) ==
    [threw |-> done.threw, markers |-> done.markers, mapLayers |-> done.mapLayers,
     view |-> IF ~done.threw /\ Len(done.bounds) > 0
              THEN [kind |-> "fitBounds", at |-> done.bounds, zoom |-> 0]
              ELSE v]

\* Faulty variant: the empty answer returns before the old markers are removed.
updateMapEarlyReturn(data, ms, layers, v, req) ==
    IF NoHits(data)
    THEN [threw |-> FALSE, markers |-> ms, mapLayers |-> layers, view |-> v]
    ELSE FitBounds(AddMarkers(data[1], 1, req,
                              [threw |-> FALSE, markers |-> <<>>,
                               mapLayers |-> RemoveOldMarkers(ms, layers),
                               bounds |-> <<>>]),
                   v)

\* updateMap(data) with `ms` owned, `layers` on the map and viewport v
updateMap(data, ms, layers, v, req) ==
    IF NoHits(data)
    THEN [threw |-> FALSE, markers |-> <<>>,
          mapLayers |-> RemoveOldMarkers(ms, layers), view |-> v]
    ELSE FitBounds(AddMarkers(data[1], 1, req,
                              [threw |-> FALSE, markers |-> <<>>,
                               mapLayers |-> RemoveOldMarkers(ms, layers),
                               bounds |-> <<>>]),
                   v)

(***************************************************************************)
(* performSearch, from the fetch's completion on.                          *)
(***************************************************************************)
Page ==
    [results |-> results, resultCount |-> resultCount, markers |-> markers,
     mapLayers |-> mapLayers, view |-> view, loading |-> loading, alert |-> NoAlert,
     out |-> ""]

\* Faulty variant: the catch block leaves the spinner.
SearchCaughtNoHide(pg) == [pg EXCEPT !.alert = MsgSearchFailed, !.out = "caught"]

\* Faulty variant: the catch block empties the result list and its count.
SearchCaughtClearList(pg) ==
    [pg EXCEPT !.loading = hideLoading, !.alert = MsgSearchFailed, !.out = "caught",
               !.results = [kind |-> "empty", cards |-> <<>>, req |-> 0],
               !.resultCount = NoCount]

\* Faulty variant: the catch block raises no alert.
SearchCaughtNoAlert(pg) == [pg EXCEPT !.loading = hideLoading, !.out = "caught"]

\* the catch block
SearchCaught(pg) ==
    [pg EXCEPT !.loading = hideLoading, !.alert = MsgSearchFailed, !.out = "caught"]

\* updateMap(data) has run on the page `shown`; hideLoading follows.
AfterUpdateMap(shown, um) ==
    IF um.threw
    THEN SearchCaught([shown EXCEPT !.markers = um.markers,
                                    !.mapLayers = um.mapLayers, !.view = um.view])
    ELSE [shown EXCEPT !.markers = um.markers, !.mapLayers = um.mapLayers,
                       !.view = um.view, !.loading = hideLoading, !.out = "ok"]

\* displayResults(data) has run on the page pg; updateMap(data) follows.
AfterDisplayResults(pg, req, resp, dr) ==
    IF dr.threw
    THEN SearchCaught([pg EXCEPT !.results = dr.results,
                                 !.resultCount = dr.resultCount])
    ELSE AfterUpdateMap([pg EXCEPT !.results = dr.results,
                                   !.resultCount = dr.resultCount],
                        updateMap(resp.data, pg.markers, pg.mapLayers, pg.view, req))

\* Faulty variant: the map is updated before the list is rendered.
PerformSearchResumeMapFirst(pg, req, resp) ==
    IF resp.kind # "json" THEN SearchCaught(pg)
    ELSE LET um == updateMap(resp.data, pg.markers, pg.mapLayers, pg.view, req)
             mapped == [pg EXCEPT !.markers = um.markers, !.mapLayers = um.mapLayers,
                                  !.view = um.view]
             dr == displayResults(resp.data, pg.results, pg.resultCount, req)
             shown == [mapped EXCEPT !.results = dr.results,
                                     !.resultCount = dr.resultCount]
         IN IF um.threw THEN SearchCaught(mapped)
            ELSE IF dr.threw THEN SearchCaught(shown)
            ELSE [shown EXCEPT !.loading = hideLoading, !.out = "ok"]

\* The rest of the try block for the response resp of request req on page pg.
PerformSearchResume(pg, req, resp) ==
    IF resp.kind # "json" THEN SearchCaught(pg)
    ELSE AfterDisplayResults(pg, req, resp,
             displayResults(resp.data, pg.results, pg.resultCount, req))

(***************************************************************************)
(* Autocomplete: the answers of /autocomplete and the panel.               *)
(***************************************************************************)
AcTitles == {<<" ", "a", "a">>, <<" ">>}

TitleLists == UNION {[1..n -> AcTitles] : n \in 0..MaxSuggestions}

\* <<>> when the body has no `hits` member, else <<the titles of hits.hits>>
AcDataValues == {<<>>} \cup {<<l>> : l \in TitleLists}

AcResponses ==
    {[kind |-> "neterror", data |-> <<>>], [kind |-> "badjson", data |-> <<>>]}
    \cup {[kind |-> "json", data |-> d] : d \in AcDataValues}

AcSummary(resp) ==
    [kind |-> resp.kind,
     hits |-> IF resp.kind = "json" /\ resp.data # <<>> THEN <<Len(resp.data[1])>>
              ELSE <<>>,
     valid |-> 0, titles |-> <<>>]

NoItems == [titles |-> <<>>, req |-> 0, q |-> <<>>]

\* Faulty variant: the length of the untrimmed value is tested.
HandleAutocompleteStartUntrimmed(value, panel) ==
    IF Len(value) < MinAutocompleteLen
    THEN [fetch |-> FALSE, q |-> <<>>, acShow |-> hideAutocomplete]
    ELSE [fetch |-> TRUE, q |-> Trim(value), acShow |-> panel]

\* handleAutocomplete(e) up to the fetch, e.target.value being `value`: the query
\* it asks for (<<>> if it asks nothing) and the panel it leaves.
HandleAutocompleteStart(value, panel) ==
    LET query == Trim(value)
    IN IF Len(query) < MinAutocompleteLen
       THEN [fetch |-> FALSE, q |-> <<>>, acShow |-> hideAutocomplete]
       ELSE [fetch |-> TRUE, q |-> query, acShow |-> panel]

\* Faulty variant: a new request aborts the older ones.
fetchAutocompleteAbortOlder(reqs, r) == {r}

\* fetch(`${API_BASE_URL}/autocomplete?q=...`): one more request in flight
fetchAutocomplete(reqs, r) == reqs \cup {r}

\* showAutocomplete(hits) for the answer to request r
showAutocomplete(titles, r) ==
    [acShow |-> TRUE, acItems |-> [titles |-> titles, req |-> r.id, q |-> r.q]]

\* Faulty variant: an answer without suggestions leaves the panel as it is.
HandleAutocompleteResumeKeepPanel(r, resp, items) ==
    IF resp.kind = "json" /\ ~NoHits(resp.data)
    THEN showAutocomplete(resp.data[1], r)
    ELSE [acShow |-> acShow, acItems |-> items]

\* handleAutocomplete from the fetch's completion on, the panel holding `items`
HandleAutocompleteResume(r, resp, items) ==
    IF resp.kind = "json" /\ ~NoHits(resp.data)
    THEN showAutocomplete(resp.data[1], r)
    ELSE [acShow |-> hideAutocomplete, acItems |-> items]

(***************************************************************************)
(* debounce(handleAutocomplete, 300)                                       *)
(***************************************************************************)
\* clearTimeout(id) on the pending timers
clearTimeout(pending, id) == pending \ {id}

\* Faulty variant: the pending call is not cancelled.
ExecutedFunctionNoClear(pending, id, e) == [timers |-> pending \cup {e}, timeout |-> e]

\* executedFunction(e): the pending timers and `timeout` after the e-th event
ExecutedFunction(pending, id, e) ==
    [timers |-> clearTimeout(pending, id) \cup {e}, timeout |-> e]

\* later(), run when timer t fires: the timers left pending
Later(pending, id, t) == clearTimeout(pending \ {t}, id)

(***************************************************************************)
(* The state after DOMContentLoaded.                                       *)
(***************************************************************************)
InitAsync ==
    /\ loading = FALSE
    /\ acShow = FALSE
    /\ acItems = NoItems
    /\ timers = {}
    /\ timeout = 0
    /\ evCount = 0
    /\ calls = [e \in 1..MaxInputs |-> 0]
    /\ superseded = {}
    /\ handled = <<>>
    /\ acReqs = {}
    /\ acSeq = 0
    /\ searchReqs = {}
    /\ searchSeq = 0
    /\ results = InitialResults
    /\ resultCount = NoCount
    /\ markers = <<>>
    /\ mapLayers = {}
    /\ view = InitialView
    /\ geoPending = 0
    /\ submitted = FALSE
    /\ alertMsg = NoAlert
    /\ last = [op |-> "load", req |-> 0, out |-> "", resp |-> NoResp, had |-> 0]

Init ==
    /\ searchInput = <<>>
    /\ searchType = "text"
    /\ latInput = <<>>
    /\ lonInput = <<>>
    /\ georefInput = <<>>
    /\ startDate = <<>>
    /\ endDate = <<>>
    /\ distanceInput = <<>>
    /\ InitAsync

(***************************************************************************)
(* The user edits a filter field (no listener of the script changes state).*)
(***************************************************************************)
EditFilters ==
    /\ \/ \E v \in LatValues \ {latInput} :
            latInput' = v /\ UNCHANGED <<searchType, lonInput, georefInput, startDate, endDate, distanceInput>>
       \/ \E v \in LonValues \ {lonInput} :
            lonInput' = v /\ UNCHANGED <<searchType, latInput, georefInput, startDate, endDate, distanceInput>>
       \/ \E v \in GeorefValues \ {georefInput} :
            georefInput' = v /\ UNCHANGED <<searchType, latInput, lonInput, startDate, endDate, distanceInput>>
       \/ \E v \in DateValues \ {startDate} :
            startDate' = v /\ UNCHANGED <<searchType, latInput, lonInput, georefInput, endDate, distanceInput>>
       \/ \E v \in DateValues \ {endDate} :
            endDate' = v /\ UNCHANGED <<searchType, latInput, lonInput, georefInput, startDate, distanceInput>>
       \/ \E v \in DistanceValues \ {distanceInput} :
            distanceInput' = v /\ UNCHANGED <<searchType, latInput, lonInput, georefInput, startDate, endDate>>
    /\ alertMsg' = NoAlert
    /\ last' = [op |-> "edit", req |-> 0, out |-> "", resp |-> NoResp, had |-> 0]
    /\ UNCHANGED <<searchInput, loading, acVars, debounceVars, searchVars, resultVars,
                   mapVars, geoPending, submitted>>

\* The user selects the other search mode: the 'change' listener only shows or
\* hides the temporal filters.
SearchTypeChange ==
    \E v \in SearchTypes \ {searchType} :
        /\ searchType' = v
        /\ alertMsg' = NoAlert
        /\ last' = [op |-> "searchTypeChange", req |-> 0, out |-> "", resp |-> NoResp, had |-> 0]
        /\ UNCHANGED <<searchInput, latInput, lonInput, georefInput, startDate,
                       endDate, distanceInput, loading, acVars, debounceVars,
                       searchVars, resultVars, mapVars, geoPending, submitted>>

(***************************************************************************)
(* performSearch: the search button, Enter in the query field.             *)
(***************************************************************************)
\* The effects of the synchronous part of performSearch on form f.
RunPerformSearch(f, panel, op) ==
    \E ps \in {PerformSearchStart(f, loading, panel)} :
       /\ ps.out = "dispatched" => searchSeq < MaxSearches
       /\ loading' = ps.loading
       /\ acShow' = ps.acShow
       /\ alertMsg' = ps.alert
       /\ submitted' = (submitted \/ ps.out = "dispatched")
       /\ IF ps.out = "dispatched"
          THEN /\ searchSeq' = searchSeq + 1
               /\ searchReqs' = searchReqs \cup
                      {[id |-> searchSeq + 1, endpoint |-> ps.request.endpoint,
                        params |-> ps.request.params]}
               /\ last' = [op |-> op, req |-> searchSeq + 1, out |-> ps.out,
                           resp |-> NoResp, had |-> 0]
          ELSE /\ UNCHANGED searchVars
               /\ last' = [op |-> op, req |-> 0, out |-> ps.out, resp |-> NoResp, had |-> 0]

\* Enter in the query field, or a click on the search button, after which the
\* document's click listener finds the button inside the search box.
PerformSearch ==
    /\ RunPerformSearch(Form, DocumentClick("searchBtn", acShow), "performSearch")
    /\ UNCHANGED <<searchInput, formVars, acItems, acReqs, acSeq, debounceVars,
                   resultVars, mapVars, geoPending>>

\* The fetch of request r completes with resp; the handler runs to its end.
SearchResponse ==
    \E r \in searchReqs, resp \in Responses :
        \E pg \in {PerformSearchResume(Page, r.id, resp)} :
           /\ searchReqs' = searchReqs \ {r}
           /\ results' = pg.results
           /\ resultCount' = pg.resultCount
           /\ markers' = pg.markers
           /\ mapLayers' = pg.mapLayers
           /\ view' = pg.view
           /\ loading' = pg.loading
           /\ alertMsg' = pg.alert
           /\ last' = [op |-> "searchResponse", req |-> r.id, out |-> pg.out,
                       resp |-> SearchSummary(resp, pg.out),
                       had |-> Cardinality(mapLayers)]
           /\ UNCHANGED <<searchInput, formVars, acVars, debounceVars, searchSeq,
                          geoPending, submitted>>

\* Faulty variant: one flag for the whole list, every card with a toggle follows.
ToggleReadMoreAll ==
    \E i \in DOMAIN results.cards :
        /\ results.cards[i].button # ""
        /\ results' = [results EXCEPT !.cards =
                           [j \in DOMAIN results.cards |->
                               IF results.cards[j].button # ""
                               THEN toggleReadMore(results.cards[j])
                               ELSE results.cards[j]]]
        /\ alertMsg' = NoAlert
        /\ acShow' = DocumentClick("readMoreBtn", acShow)
        /\ last' = [op |-> "toggleReadMore", req |-> i, out |-> "", resp |-> NoResp, had |-> 0]
        /\ UNCHANGED <<searchInput, formVars, loading, acItems, acReqs, acSeq,
                       debounceVars, searchVars, resultCount, mapVars, geoPending,
                       submitted>>

\* The user clicks the toggle button of card i: the button's inline handler
\* runs, then the document's click listener.
ToggleReadMore ==
    \E i \in DOMAIN results.cards :
        /\ results.cards[i].button # ""
        /\ results' = [results EXCEPT !.cards[i] = toggleReadMore(@)]
        /\ alertMsg' = NoAlert
        /\ acShow' = DocumentClick("readMoreBtn", acShow)
        /\ last' = [op |-> "toggleReadMore", req |-> i, out |-> "", resp |-> NoResp, had |-> 0]
        /\ UNCHANGED <<searchInput, formVars, loading, acItems, acReqs, acSeq,
                       debounceVars, searchVars, resultCount, mapVars, geoPending,
                       submitted>>

(***************************************************************************)
(* The query field: 'input' events, the debounce timer, autocomplete.      *)
(***************************************************************************)
\* The user changes the query field to v: the debounced listener runs.
InputEvent ==
    \E v \in Strings \ {searchInput} :
        /\ evCount < MaxInputs
        /\ LET e == evCount + 1
               d == ExecutedFunction(timers, timeout, e)
           IN /\ searchInput' = v
              /\ evCount' = e
              /\ timers' = d.timers
              /\ timeout' = d.timeout
              /\ superseded' = superseded \cup timers
              /\ last' = [op |-> "input", req |-> e, out |-> "", resp |-> NoResp, had |-> 0]
        /\ alertMsg' = NoAlert
        /\ submitted' = FALSE
        /\ UNCHANGED <<formVars, loading, acVars, calls, handled, searchVars,
                       resultVars, mapVars, geoPending>>

\* Timer t fires: later() runs handleAutocomplete with the event it was set for.
TimerFire ==
    \E t \in timers :
        \E ha \in {HandleAutocompleteStart(searchInput, acShow)} :
           /\ timers' = Later(timers, timeout, t)
           /\ calls' = [calls EXCEPT ![t] = @ + 1]
           /\ handled' = <<searchInput>>
           /\ acShow' = ha.acShow
           /\ IF ha.fetch
              THEN /\ acSeq' = acSeq + 1
                   /\ acReqs' = fetchAutocomplete(acReqs, [id |-> acSeq + 1, q |-> ha.q])
                   /\ last' = [op |-> "handleAutocomplete", req |-> acSeq + 1,
                               out |-> "fetch", resp |-> NoResp, had |-> 0]
              ELSE /\ UNCHANGED <<acReqs, acSeq>>
                   /\ last' = [op |-> "handleAutocomplete", req |-> 0,
                               out |-> "short", resp |-> NoResp, had |-> 0]
           /\ alertMsg' = NoAlert
           /\ UNCHANGED <<searchInput, formVars, loading, acItems, timeout, evCount,
                          superseded, searchVars, resultVars, mapVars, geoPending, submitted>>

\* The autocomplete request r completes with resp.
AcResponse ==
    \E r \in acReqs, resp \in AcResponses :
        \E ha \in {HandleAutocompleteResume(r, resp, acItems)} :
           /\ acReqs' = acReqs \ {r}
           /\ acShow' = ha.acShow
           /\ acItems' = ha.acItems
           /\ alertMsg' = NoAlert
           /\ last' = [op |-> "acResponse", req |-> r.id,
                       out |-> IF ha.acShow THEN "shown" ELSE "hidden",
                       resp |-> AcSummary(resp), had |-> 0]
           /\ UNCHANGED <<searchInput, formVars, loading, acSeq, debounceVars,
                          searchVars, resultVars, mapVars, geoPending, submitted>>

\* Faulty variant: the search runs on the field before the title is copied.
ClickSuggestionSearchFirst ==
    \E i \in DOMAIN acItems.titles :
        /\ acShow
        /\ searchInput' = acItems.titles[i]
        /\ RunPerformSearch(Form, hideAutocomplete, "clickSuggestion")
        /\ UNCHANGED <<formVars, acItems, acReqs, acSeq, debounceVars, resultVars,
                       mapVars, geoPending>>

\* The user clicks row i of the visible panel.
ClickSuggestion ==
    \E i \in DOMAIN acItems.titles :
        /\ acShow
        /\ searchInput' = acItems.titles[i]
        /\ RunPerformSearch([Form EXCEPT !.searchInput = acItems.titles[i]],
                            hideAutocomplete, "clickSuggestion")
        /\ UNCHANGED <<formVars, acItems, acReqs, acSeq, debounceVars, resultVars,
                       mapVars, geoPending>>

\* A click on an element outside the search box that has no listener of its
\* own (with the panel hidden it changes nothing).
ClickOutside ==
    /\ acShow
    /\ acShow' = DocumentClick("body", acShow)
    /\ alertMsg' = NoAlert
    /\ last' = [op |-> "clickOutside", req |-> 0, out |-> "", resp |-> NoResp, had |-> 0]
    /\ UNCHANGED <<searchInput, formVars, loading, acItems, acReqs, acSeq,
                   debounceVars, searchVars, resultVars, mapVars, geoPending, submitted>>

(***************************************************************************)
(* getUserLocation                                                         *)
(***************************************************************************)
Positions == {[latitude |-> "31.76831", longitude |-> "35.21371"]}

\* Number.prototype.toFixed(4) on the coordinates above
ToFixed4(x) == CASE x = "31.76831" -> "31.7683" [] x = "35.21371" -> "35.2137"

\* The user clicks "use my location"; `supported` is navigator.geolocation.
\* The button's listener runs, then the document's click listener.
GetUserLocation ==
    \E supported \in BOOLEAN :
        /\ IF supported
           THEN /\ geoPending < MaxGeo
                /\ loading' = showLoading
                /\ geoPending' = geoPending + 1
                /\ alertMsg' = NoAlert
                /\ last' = [op |-> "getUserLocation", req |-> 0, out |-> "asked",
                            resp |-> NoResp, had |-> 0]
           ELSE /\ alertMsg' = MsgGeoUnsupported
                /\ last' = [op |-> "getUserLocation", req |-> 0,
                            out |-> "unsupported", resp |-> NoResp, had |-> 0]
                /\ UNCHANGED <<loading, geoPending>>
        /\ acShow' = DocumentClick("useMyLocation", acShow)
        /\ UNCHANGED <<searchInput, formVars, acItems, acReqs, acSeq, debounceVars,
                       searchVars, resultVars, mapVars, submitted>>

\* getCurrentPosition calls the success callback with a position.
GeoSuccess ==
    \E pos \in Positions :
        /\ geoPending > 0
        /\ geoPending' = geoPending - 1
        /\ latInput' = <<ToFixed4(pos.latitude)>>
        /\ lonInput' = <<ToFixed4(pos.longitude)>>
        /\ view' = [kind |-> "setView", at |-> << <<pos.latitude, pos.longitude>> >>,
                    zoom |-> 10]
        /\ loading' = hideLoading
        /\ alertMsg' = MsgGeoSet
        /\ last' = [op |-> "geoSuccess", req |-> 0, out |-> "", resp |-> NoResp, had |-> 0]
        /\ UNCHANGED <<searchInput, searchType, georefInput, startDate, endDate,
                       distanceInput, acVars, debounceVars, searchVars, resultVars,
                       markers, mapLayers, submitted>>

\* Faulty variant: the error callback leaves the busy indicator.
GeoErrorKeepBusy ==
    /\ geoPending > 0
    /\ geoPending' = geoPending - 1
    /\ alertMsg' = MsgGeoFailed
    /\ last' = [op |-> "geoError", req |-> 0, out |-> "", resp |-> NoResp, had |-> 0]
    /\ UNCHANGED <<searchInput, formVars, loading, acVars, debounceVars, searchVars,
                   resultVars, mapVars, submitted>>

\* getCurrentPosition calls the error callback.
GeoError ==
    /\ geoPending > 0
    /\ geoPending' = geoPending - 1
    /\ loading' = hideLoading
    /\ alertMsg' = MsgGeoFailed
    /\ last' = [op |-> "geoError", req |-> 0, out |-> "", resp |-> NoResp, had |-> 0]
    /\ UNCHANGED <<searchInput, formVars, acVars, debounceVars, searchVars,
                   resultVars, mapVars, submitted>>

(***************************************************************************)
(* Specifications.                                                         *)
(***************************************************************************)
Next ==
    \/ EditFilters
    \/ SearchTypeChange
    \/ PerformSearch
    \/ SearchResponse
    \/ ToggleReadMore
    \/ InputEvent
    \/ TimerFire
    \/ AcResponse
    \/ ClickSuggestion
    \/ ClickOutside
    \/ GetUserLocation
    \/ GeoSuccess
    \/ GeoError

Spec == Init /\ [][Next]_vars

\* performSearch applied to every content of the form.
InitForm ==
    /\ searchInput \in Strings
    /\ searchType \in SearchTypes
    /\ latInput \in LatValues
    /\ lonInput \in LonValues
    /\ georefInput \in GeorefValues
    /\ startDate \in DateValues
    /\ endDate \in DateValues
    /\ distanceInput \in DistanceValues
    /\ InitAsync

NextForm == PerformSearch

SpecForm == InitForm /\ [][NextForm]_vars

\* Searches and their answers.  The form holds a query and a place name but no
\* start date: a search in text mode is dispatched, one in spatiotemporal mode
\* is refused.
InitSearch ==
    /\ searchInput = <<"a">>
    /\ searchType = "text"
    /\ latInput = <<>>
    /\ lonInput = <<>>
    /\ georefInput = <<"N">>
    /\ startDate = <<>>
    /\ endDate = <<"2020-01-01">>
    /\ distanceInput = <<>>
    /\ InitAsync

NextSearch ==
    \/ SearchTypeChange
    \/ PerformSearch
    \/ SearchResponse
    \/ ToggleReadMore

SpecSearch == InitSearch /\ [][NextSearch]_vars

\* The query field, its debounced listener and the autocomplete requests.
NextAuto ==
    \/ InputEvent
    \/ TimerFire
    \/ AcResponse
    \/ ClickOutside

SpecAuto == Init /\ [][NextAuto]_vars

\* The debounced listener alone; a timer that stays pending fires in the end.
NextDebounce ==
    \/ InputEvent
    \/ TimerFire

FairDebounce == Init /\ [][NextDebounce]_vars /\ WF_vars(TimerFire)

\* The suggestion panel and a click on one of its rows (text mode).
NextClick ==
    \/ InputEvent
    \/ TimerFire
    \/ AcResponse
    \/ ClickSuggestion

SpecClick == Init /\ [][NextClick]_vars

\* The "use my location" button, with the filter fields edited by hand.
NextGeo ==
    \/ EditFilters
    \/ GetUserLocation
    \/ GeoSuccess
    \/ GeoError

SpecGeo == Init /\ [][NextGeo]_vars

\* Searches and their answers on a form with every filter filled in: a search
\* is dispatched in either mode, to /search or to /spatiotemporal.
InitOverlap ==
    /\ searchInput = <<"a">>
    /\ searchType = "text"
    /\ latInput = <<>>
    /\ lonInput = <<>>
    /\ georefInput = <<"N">>
    /\ startDate = <<"2020-01-01">>
    /\ endDate = <<"2020-01-01">>
    /\ distanceInput = <<>>
    /\ InitAsync

SpecOverlap == InitOverlap /\ [][NextSearch]_vars

\* Typing in the query field and submitting the search with Enter or the button.
NextSubmit ==
    \/ InputEvent
    \/ TimerFire
    \/ AcResponse
    \/ PerformSearch

SpecSubmit == Init /\ [][NextSubmit]_vars

(***************************************************************************)
(* Properties.                                                             *)
(***************************************************************************)
\* The request the last callback dispatched.
LastRequest == CHOOSE r \in searchReqs : r.id = last.req

SpatiotemporalIncomplete ==
    /\ last.op = "performSearch"
    /\ searchType = "spatiotemporal"
    /\ startDate = <<>> \/ endDate = <<>> \/ georefInput = <<>>

\* C1 as stated: performSearch in spatiotemporal mode with the start date, the
\* end date or the place name empty dispatches no request and shows the
\* spatiotemporal validation message, whatever the other fields hold.
C1_AsStated ==
    SpatiotemporalIncomplete => last.req = 0 /\ alertMsg = MsgSpatiotemporal

\* C1 amended: performSearch in spatiotemporal mode with the start date, the end
\* date or the place name empty dispatches no request; it shows the
\* spatiotemporal validation message if the trimmed query is not empty, and the
\* query-required message if it is.
C1_ValidationAbort ==
    SpatiotemporalIncomplete =>
        /\ last.req = 0
        /\ last.out # "dispatched"
        /\ alertMsg = IF Trim(searchInput) = <<>> THEN MsgQueryRequired
                      ELSE MsgSpatiotemporal

C1_Witness ==
    /\ SpatiotemporalIncomplete
    /\ georefInput = <<>>
    /\ startDate # <<>>
    /\ endDate # <<>>
    /\ Trim(searchInput) # <<>>
    /\ latInput # <<>>
    /\ distanceInput # <<>>
    /\ alertMsg = MsgSpatiotemporal

\* C2: after updateMap completes on a result set with N hits having valid
\* coordinates, the owned marker set has N elements, the map holds exactly these
\* N markers, and each of them was made for this result set: every marker that
\* was on the map before is gone.
C2_MarkersRebuilt ==
    last.op = "searchResponse" /\ last.out = "ok" =>
        /\ Len(markers) = last.resp.valid
        /\ Cardinality(mapLayers) = last.resp.valid
        /\ mapLayers = Range(markers)
        /\ \A m \in mapLayers : m.req = last.req

C2_Witness ==
    /\ last.op = "searchResponse"
    /\ last.out = "ok"
    /\ last.had = 2
    /\ last.resp.valid = 1
    /\ last.resp.hits = <<2>>
    /\ Len(markers) = 1

\* C3: when handleAutocomplete runs on an input whose trimmed value has fewer
\* than 3 characters, it issues no autocomplete request and the suggestion panel
\* is hidden when it returns.
C3_ShortQuery ==
    last.op = "handleAutocomplete" /\ Len(Trim(searchInput)) < 3 =>
        /\ last.req = 0
        /\ last.out = "short"
        /\ ~acShow

C3_Witness ==
    /\ last.op = "handleAutocomplete"
    /\ Len(searchInput) >= 3
    /\ Len(Trim(searchInput)) < 3
    /\ acItems.titles # <<>>
    /\ ~acShow

\* C4: if the input most recently handled by handleAutocomplete has a trimmed
\* length below 3, the suggestion panel is not visible.
C4_NeverShownForShortQuery ==
    handled # <<>> /\ Len(Trim(handled[1])) < 3 => ~acShow

\* C5: the debounced listener keeps at most one call pending; a call whose event
\* was followed by another one while it was pending never runs, no call runs
\* twice, and the call scheduled by the last event of a burst does run.
C5_Debounce ==
    /\ [](/\ Cardinality(timers) <= 1
          /\ \A e \in 1..MaxInputs :
                /\ calls[e] <= 1
                /\ calls[e] = 1 => e \notin superseded
                /\ e \in timers => e = evCount /\ calls[e] = 0)
    /\ \A e \in 1..MaxInputs : (e \in timers) ~> (calls[e] = 1 \/ e \in superseded)

C5_Witness ==
    /\ evCount = 2
    /\ 1 \in superseded
    /\ calls[1] = 0
    /\ calls[2] = 1
    /\ timers = {}

\* C6: an autocomplete request in flight leaves the set of requests in flight
\* only when its own answer is handled: nothing cancels or discards it.
C6_NoCancellation ==
    [][\A r \in acReqs :
          r \in acReqs' \/ (last'.op = "acResponse" /\ last'.req = r.id)]_vars

\* The answer to an older request has just been rendered while a newer request,
\* for another query, is in flight.
C6_Witness ==
    /\ last.op = "acResponse"
    /\ acShow
    /\ acItems.req = last.req
    /\ \E r \in acReqs : r.id > acItems.req /\ r.q # acItems.q

\* C7: a performSearch invocation that showed the busy indicator leaves it
\* hidden when it finishes: after the answer was rendered, after the catch
\* block, and after the spatiotemporal validation abort.
C7_BusyHidden ==
    /\ last.op = "searchResponse" => ~loading
    /\ last.op = "performSearch" /\ last.out = "abort" => ~loading

C7_Witness ==
    /\ last.op = "searchResponse"
    /\ last.out = "caught"
    /\ last.resp.kind = "json"
    /\ searchReqs # {}
    /\ ~loading

\* C8: in spatiotemporal mode with the required fields, the request carries the
\* latitude, the longitude and the radius the user supplied, and 32.2211,
\* 35.2544 and 500km for those left empty.
C8_Defaults ==
    last.op = "performSearch" /\ last.out = "dispatched"
    /\ searchType = "spatiotemporal" =>
        /\ LastRequest.endpoint = "/spatiotemporal"
        /\ GetParam(LastRequest, "lat") =
               (IF latInput = <<>> THEN <<"32.2211">> ELSE latInput)
        /\ GetParam(LastRequest, "lon") =
               (IF lonInput = <<>> THEN <<"35.2544">> ELSE lonInput)
        /\ GetParam(LastRequest, "distance") =
               (IF distanceInput = <<>> THEN <<"500km">> ELSE distanceInput)

C8_Witness ==
    /\ last.op = "performSearch"
    /\ last.out = "dispatched"
    /\ searchType = "spatiotemporal"
    /\ latInput # <<>>
    /\ lonInput = <<>>
    /\ distanceInput = <<>>
    /\ GetParam(LastRequest, "lon") = <<"35.2544">>

\* C9: once an answer with an empty hit list is processed, the result panel
\* shows no card and the no-results message, the count is cleared, and no marker
\* is owned or on the map.
C9_EmptyAnswer ==
    last.op = "searchResponse" /\ last.resp.kind = "json" /\ last.resp.hits = <<0>> =>
        /\ results.kind = "empty"
        /\ results.cards = <<>>
        /\ results.req = last.req
        /\ resultCount = NoCount
        /\ markers = <<>>
        /\ mapLayers = {}

C9_Witness ==
    /\ last.op = "searchResponse"
    /\ last.resp.kind = "json"
    /\ last.resp.hits = <<0>>
    /\ last.had > 0
    /\ results.kind = "empty"

\* C10: a card whose content has at most 300 characters has no toggle and shows
\* its content; a card with a longer content has the toggle, labelled Read More
\* over the 300-character preview followed by an ellipsis or Read Less over the
\* full content, the former when rendered; one toggle changes between the two
\* and two toggles change nothing of the displayed text and the label.
C10_ReadMore ==
    \A i \in DOMAIN results.cards :
        LET c == results.cards[i]
            once == toggleReadMore(c)
            twice == toggleReadMore(once)
        IN IF Length(c.full) <= 300
           THEN c.button = "" /\ DisplayedText(c) = c.full
           ELSE /\ c.button \in {"Read More", "Read Less"}
                /\ c.button = "Read More" =>
                      /\ DisplayedText(c) = Concat(Substring0(c.full, 300), << <<".", 3>> >>)
                      /\ once.button = "Read Less"
                      /\ DisplayedText(once) = c.full
                /\ c.button = "Read Less" =>
                      /\ DisplayedText(c) = c.full
                      /\ ~(last.op = "searchResponse" /\ last.out = "ok")
                /\ twice.button = c.button
                /\ DisplayedText(twice) = DisplayedText(c)

\* A long card that was expanded and collapsed again, beside one without toggle.
C10_Witness ==
    /\ last.op = "toggleReadMore"
    /\ \E i \in DOMAIN results.cards :
          /\ results.cards[i].previewDisplay = "inline"
          /\ results.cards[i].button = "Read More"
    /\ \E i \in DOMAIN results.cards :
          /\ results.cards[i].button = ""
          /\ Length(results.cards[i].full) = 300

\* C11: a callback issues at most one search request, and only a performSearch
\* invocation does (the answer to a request never issues another one); when a
\* request fails in transport or its body does not parse, the busy indicator is
\* hidden and the backend-unreachable message is shown.
C11_NoRetry ==
    /\ [](last.op = "searchResponse" /\ last.resp.kind \in {"neterror", "badjson"} =>
             /\ ~loading
             /\ alertMsg = "Search failed. Please make sure the backend is running."
             /\ last.out = "caught")
    /\ [][searchReqs' \ searchReqs # {} \/ searchSeq' # searchSeq =>
             /\ last'.op \in {"performSearch", "clickSuggestion"}
             /\ searchSeq' = searchSeq + 1
             /\ searchReqs \subseteq searchReqs'
             /\ Cardinality(searchReqs' \ searchReqs) = 1]_vars

\* The only request issued failed in transport: none is in flight afterwards.
C11_Witness ==
    /\ last.op = "searchResponse"
    /\ last.resp.kind = "neterror"
    /\ searchSeq = 1
    /\ searchReqs = {}
    /\ ~loading
    /\ alertMsg = MsgSearchFailed

\* C12: performSearch on a query that is empty once trimmed, in either mode,
\* issues no request, shows the query-required message and leaves the busy
\* indicator as it was; every request issued carries a non-empty q.
C12_EmptyQuery ==
    /\ [](\A r \in searchReqs :
             /\ r.endpoint \in {"/search", "/spatiotemporal"}
             /\ HasParam(r, "q")
             /\ GetParam(r, "q") # <<>>
             /\ Head(GetParam(r, "q")) # " ")
    /\ [][last'.op = "performSearch" /\ Trim(searchInput') = <<>> =>
             /\ searchReqs' = searchReqs
             /\ searchSeq' = searchSeq
             /\ loading' = loading
             /\ alertMsg' = "Please enter a search query"
             /\ last'.out = "noquery"]_vars

\* A query of blanks in spatiotemporal mode with every filter filled in.
C12_Witness ==
    /\ last.op = "performSearch"
    /\ last.out = "noquery"
    /\ searchInput # <<>>
    /\ Trim(searchInput) = <<>>
    /\ searchType = "spatiotemporal"
    /\ ~MissingRequired(startDate, endDate, Trim(georefInput))
    /\ searchReqs = {}
    /\ ~loading
    /\ alertMsg = MsgQueryRequired

\* The hit a displayed card was rendered from (titles name the hits).
HitOf(title) == CHOOSE h \in HitValues : h.title = title

\* C13: between callbacks the owned markers, which are the markers on the map,
\* are those of the hits with a valid coordinate pair (both coordinates present
\* and non-zero) of the response whose cards are displayed, one per such hit,
\* in the hits' order; with no card displayed there is no marker.
C13_SamePayload ==
    LET shown == [i \in DOMAIN results.cards |-> HitOf(results.cards[i].title)]
        valid == {i \in DOMAIN shown :
                     /\ shown[i].geopoint # <<>>
                     /\ shown[i].geopoint[1] \notin {<<>>, <<0>>}
                     /\ shown[i].geopoint[2] \notin {<<>>, <<0>>}}
    IN /\ mapLayers = Range(markers)
       /\ Len(markers) = Cardinality(valid)
       /\ Range(markers) =
              {[req |-> results.req, idx |-> i, lat |-> shown[i].geopoint[1][1],
                lon |-> shown[i].geopoint[2][1]] : i \in valid}
       /\ \A j, k \in DOMAIN markers : j < k => markers[j].idx < markers[k].idx

\* Two overlapping searches answered in reverse order: the answer to the second
\* is displayed with its marker, the answer to the first raised in rendering.
C13_Witness ==
    /\ last.op = "searchResponse"
    /\ last.req = 1
    /\ last.out = "caught"
    /\ last.resp.kind = "json"
    /\ last.resp.hits # <<>>
    /\ results.kind = "cards"
    /\ results.req = 2
    /\ markers # <<>>

\* C14: once a response with n > 0 hits is rendered, the list holds n cards, card
\* i made from hit i of that response and as rendered (collapsed), and the count
\* summary is n.
C14_CardsInOrder ==
    last.op = "searchResponse" /\ last.out = "ok" /\ last.resp.hits \notin {<<>>, <<0>>} =>
        LET n == last.resp.hits[1]
        IN /\ results.kind = "cards"
           /\ results.req = last.req
           /\ Len(results.cards) = n
           /\ Len(last.resp.titles) = n
           /\ \A i \in 1..n :
                 /\ results.cards[i].title = last.resp.titles[i]
                 /\ results.cards[i].fullDisplay = "none"
                 /\ results.cards[i].button # "Read Less"
           /\ resultCount = <<n>>

\* The second answer, rendered over the first: the lower-scored hit comes first.
C14_Witness ==
    /\ last.op = "searchResponse"
    /\ last.out = "ok"
    /\ last.req = 2
    /\ last.had > 0
    /\ last.resp.titles = <<"B", "A">>
    /\ Len(results.cards) = 2
    /\ results.cards[1].title = "B"
    /\ results.cards[2].title = "A"

\* C15: a click on a row of the suggestion panel leaves, when its callback ends,
\* the row's title in the query field and the panel hidden, and has run
\* performSearch on that field: no request and the query-required message if
\* the trimmed title is empty; else, in text mode with no filter set, one
\* request to /search whose only parameter is q, the trimmed title.
C15_SuggestionClick ==
    [][last'.op = "clickSuggestion" =>
          /\ acShow
          /\ ~acShow'
          /\ \E i \in DOMAIN acItems.titles :
                LET title == acItems.titles[i]
                IN /\ searchInput' = title
                   /\ IF Trim(title) = <<>>
                      THEN /\ searchReqs' = searchReqs
                           /\ alertMsg' = "Please enter a search query"
                      ELSE searchType = "text" /\ latInput = <<>> /\ georefInput = <<>> =>
                              \E r \in searchReqs' \ searchReqs :
                                 /\ searchReqs' = searchReqs \cup {r}
                                 /\ r.endpoint = "/search"
                                 /\ r.params = << <<"q", Trim(title)>> >>
                                 /\ loading']_vars

\* The clicked title had a leading blank: the field holds it as it is, the
\* request carries it trimmed.
C15_Witness ==
    /\ last.op = "clickSuggestion"
    /\ last.out = "dispatched"
    /\ searchInput = <<" ", "a", "a">>
    /\ acItems.titles = <<searchInput>>
    /\ ~acShow
    /\ GetParam(LastRequest, "q") = <<"a", "a">>

\* C16: when the answer to an autocomplete request is a transport failure, an
\* unparseable body or a body without suggestion hits, the callback leaves the
\* panel hidden, raises no alert, and changes neither the query field, the
\* result list and its count, the markers and the map, nor the busy indicator.
C16_SilentFailure ==
    [][/\ last'.op = "acResponse"
       /\ \/ last'.resp.kind \in {"neterror", "badjson"}
          \/ last'.resp.hits \in {<<>>, <<0>>}
       => /\ ~acShow'
          /\ alertMsg' = ""
          /\ UNCHANGED <<searchInput, results, resultCount, markers, mapLayers,
                         view, loading>>]_vars

\* The panel held the suggestions of the first request; the second request
\* failed in transport and the panel is hidden.
C16_Witness ==
    /\ last.op = "acResponse"
    /\ last.resp.kind = "neterror"
    /\ last.req = 2
    /\ acItems.req = 1
    /\ acItems.titles # <<>>
    /\ searchSeq = 0
    /\ ~acShow
    /\ alertMsg = NoAlert

\* C17: getUserLocation without a location capability raises the unsupported
\* alert and neither shows the busy indicator nor requests a position; with
\* one it shows the busy indicator and requests a position.  The success
\* callback hides the indicator, writes the coordinates with 4 decimals into the
\* two fields and centres the map on the position; the error callback hides the
\* indicator and leaves the fields and the viewport as they were.
C17_UserLocation ==
    [][/\ last'.op = "getUserLocation" /\ last'.out = "unsupported" =>
             /\ alertMsg' = "Geolocation is not supported by your browser."
             /\ UNCHANGED <<loading, geoPending, latInput, lonInput, view>>
       /\ last'.op = "getUserLocation" /\ last'.out = "asked" =>
             /\ loading'
             /\ geoPending' = geoPending + 1
             /\ UNCHANGED <<latInput, lonInput, view>>
       /\ last'.op = "geoSuccess" =>
             /\ ~loading'
             /\ geoPending' = geoPending - 1
             /\ latInput' = <<"31.7683">>
             /\ lonInput' = <<"35.2137">>
             /\ view' = [kind |-> "setView", at |-> << <<"31.76831", "35.21371">> >>,
                         zoom |-> 10]
       /\ last'.op = "geoError" =>
             /\ ~loading'
             /\ geoPending' = geoPending - 1
             /\ alertMsg' = "Unable to get your location. Please enter manually."
             /\ UNCHANGED <<latInput, lonInput, view>>]_vars

\* The position request failed: the latitude typed by hand is still there, the
\* map is where it was, the busy indicator is hidden.
C17_Witness ==
    /\ last.op = "geoError"
    /\ geoPending = 0
    /\ ~loading
    /\ latInput = <<"31.5">>
    /\ lonInput = <<>>
    /\ view = InitialView
    /\ alertMsg = MsgGeoFailed

\* C18: when updateMap has processed a result set, the viewport is the one it
\* found if it added no marker, and else the fit to the positions of the markers
\* it added, in their order; a response that updateMap does not process leaves
\* the viewport as well.
C18_Viewport ==
    [][last'.op = "searchResponse" =>
          IF last'.out = "ok" /\ markers' # <<>>
          THEN view' = [kind |-> "fitBounds",
                        at |-> [i \in DOMAIN markers' |->
                                   <<markers'[i].lat, markers'[i].lon>>],
                        zoom |-> 0]
          ELSE view' = view]_vars

\* The map was fitted to the markers of an earlier answer; the answer just
\* processed has one hit, on the equator: no marker, and the fit is kept.
C18_Witness ==
    /\ last.op = "searchResponse"
    /\ last.out = "ok"
    /\ last.resp.hits = <<1>>
    /\ last.resp.valid = 0
    /\ last.had > 0
    /\ markers = <<>>
    /\ view.kind = "fitBounds"

\* C19: a click on the toggle of card i switches card i between its preview
\* under Read More and its full content under Read Less, and leaves every
\* other card, the number of cards and the response they come from as they were.
C19_PerCardToggle ==
    [][last'.op = "toggleReadMore" =>
          LET i == last'.req
          IN /\ i \in DOMAIN results.cards
             /\ DOMAIN results'.cards = DOMAIN results.cards
             /\ results'.kind = results.kind
             /\ results'.req = results.req
             /\ \A j \in DOMAIN results.cards \ {i} :
                   results'.cards[j] = results.cards[j]
             /\ results'.cards[i].button # results.cards[i].button
             /\ results'.cards[i].button \in {"Read More", "Read Less"}
             /\ DisplayedText(results'.cards[i]) =
                    (IF results'.cards[i].button = "Read Less"
                     THEN results.cards[i].full
                     ELSE results.cards[i].preview)]_vars

\* Two cards with a toggle: the first is expanded, the second collapsed.
C19_Witness ==
    /\ last.op = "toggleReadMore"
    /\ Len(results.cards) = 2
    /\ results.cards[1].button = "Read Less"
    /\ results.cards[2].button = "Read More"
    /\ DisplayedText(results.cards[1]) = results.cards[1].full
    /\ DisplayedText(results.cards[2]) = results.cards[2].preview

\* C20: performSearch in text mode on a query that is not empty once trimmed
\* issues one request to /search; it carries q, the trimmed query; lat and lon,
\* as typed, if and only if both fields are filled; georef, trimmed, if and only
\* if the trimmed place name is not empty; and no start, end or distance.
C20_TextRequest ==
    last.op = "performSearch" /\ searchType = "text" /\ Trim(searchInput) # <<>> =>
        /\ last.out = "dispatched"
        /\ LastRequest.endpoint = "/search"
        /\ GetParam(LastRequest, "q") = Trim(searchInput)
        /\ HasParam(LastRequest, "lat") <=> (latInput # <<>> /\ lonInput # <<>>)
        /\ HasParam(LastRequest, "lon") <=> (latInput # <<>> /\ lonInput # <<>>)
        /\ HasParam(LastRequest, "lat") =>
              /\ GetParam(LastRequest, "lat") = latInput
              /\ GetParam(LastRequest, "lon") = lonInput
        /\ HasParam(LastRequest, "georef") <=> (Trim(georefInput) # <<>>)
        /\ HasParam(LastRequest, "georef") =>
              GetParam(LastRequest, "georef") = Trim(georefInput)
        /\ \A k \in {"start", "end", "distance"} : ~HasParam(LastRequest, k)
        /\ \A i, j \in DOMAIN LastRequest.params :
              LastRequest.params[i][1] = LastRequest.params[j][1] => i = j

\* Only the latitude is filled, the place name is a blank, a date and a radius
\* are set: the request carries q alone.
C20_Witness ==
    /\ last.op = "performSearch"
    /\ last.out = "dispatched"
    /\ searchType = "text"
    /\ latInput # <<>>
    /\ lonInput = <<>>
    /\ georefInput = <<" ">>
    /\ startDate # <<>>
    /\ distanceInput # <<>>
    /\ LastRequest.params = << <<"q", Trim(searchInput)>> >>

\* C21: when the answer of the most recently submitted search is displayed and
\* the last search still in flight, an earlier one, resolves, the result list
\* and the markers are still those of the most recently submitted search.
C21_LastSubmittedWins ==
    [][/\ results.req = searchSeq
       /\ searchSeq' = searchSeq
       /\ searchReqs # {}
       /\ searchReqs' = {}
       => /\ results'.req = searchSeq
          /\ \A m \in mapLayers' : m.req = searchSeq]_vars

\* C22: the busy indicator is visible in every state in which a search request
\* or a position request is pending.
C22_BusyWhilePending ==
    searchReqs # {} \/ geoPending > 0 => loading

\* C23: from the submission of a search until the next change of the query
\* field, the suggestion panel is hidden.
C23_HiddenAfterSearch ==
    submitted => ~acShow

\* C24: between callbacks the markers on the map are the owned markers, each
\* once.
C24_MapHoldsOwned ==
    /\ mapLayers = Range(markers)
    /\ Cardinality(mapLayers) = Len(markers)

\* An answer whose only hit has coordinates and no score arrived while the
\* markers of an earlier answer were on the map: rendering raised, and these
\* markers are still owned and on the map.
C24_Witness ==
    /\ last.op = "searchResponse"
    /\ last.out = "caught"
    /\ last.resp.kind = "json"
    /\ last.resp.hits = <<1>>
    /\ last.resp.valid = 1
    /\ last.had = 2
    /\ Len(markers) = 2
    /\ Cardinality(mapLayers) = 2

\* C25: a performSearch invocation that returns at a validation check, and the
\* handling of an answer that is a transport failure or an unparseable body,
\* leave the result cards, expanded or not, the result count, the owned
\* markers and the markers on the map as they were.
C25_ErrorLeavesResults ==
    [][\/ last'.op = "performSearch" /\ last'.out \in {"noquery", "abort"}
       \/ last'.op = "searchResponse" /\ last'.resp.kind \in {"neterror", "badjson"}
       => UNCHANGED <<results, resultCount, markers, mapLayers>>]_vars

\* The body of the second answer did not parse: the cards of the first, one of
\* them expanded, its count and its marker are still there.
C25_Witness ==
    /\ last.op = "searchResponse"
    /\ last.req = 2
    /\ last.resp.kind = "badjson"
    /\ results.kind = "cards"
    /\ results.req = 1
    /\ \E i \in DOMAIN results.cards : results.cards[i].button = "Read Less"
    /\ resultCount = <<Len(results.cards)>>
    /\ markers # <<>>
    /\ mapLayers = Range(markers)

====
